---------------------------- MODULE Spec2Model ----------------------------
(***************************************************************************)
(* Model of the Angular navigation-bar example: the NavBarService, the     *)
(* base NavBarComponentComponent and the derived CustomNavBarComponent,    *)
(* in the three revisions of the README that define behaviour:             *)
(*   "LSP"  base logs on teardown, derived overrides ngOnDestroy;          *)
(*   "ISP"  both have displayLinks, derived overrides both operations;     *)
(*   "DIP"  the final code under src/app: both delegate to the service.    *)
(* The hosting framework constructs components, injecting a service, may   *)
(* call displayLinks() on a live component and calls ngOnDestroy() once    *)
(* when it tears a component down.  console.log is the only effect; the    *)
(* console is modelled as the sequence of the messages logged so far.      *)
(***************************************************************************)
EXTENDS Naturals, Sequences, FiniteSets

\* ------------------------------------------------------------- bounds
MaxInstances == 2      \* component instances the host constructs
MaxCalls == 2          \* displayLinks() calls the host makes on one instance
NumServices == 2       \* NavBarService instances that can be injected

Instances == 1..MaxInstances
Services == 1..NumServices
NoService == 0

Revisions == {"LSP", "ISP", "DIP"}

\* ------------------------------------------------------- log messages
DefaultLinksMsg == "Displaying default navbar links"
ServiceCleanupMsg == "NavBarService cleanup performed!"
ComponentCleanupMsg == "NavBarComponent cleanup performed!"
HellBhieMsg == "Hell Bhie!"
CustomLinksMsg == "Displaying custom navbar links"
CustomExtraCleanupMsg == "CustomNavBarComponent is being destroyed with extra cleanup!"

\* ------------------------------------------------ declared link lists
BaseLinks ==
    << <<"Home", "#home">>, <<"About", "#about">>,
       <<"Services", "#services">>, <<"Contact", "#contact">> >>

CustomLinks ==
    << <<"Home", "#home">>, <<"About", "#about">>,
       <<"Custom Link", "#custom">>, <<"Contact", "#contact">> >>

DeclaredLinks(k) == IF k = "custom" THEN CustomLinks ELSE BaseLinks

VARIABLES
    revision,       \* the revision of the code that is running
    kind,           \* kind[i]: "none" (not constructed), "base" or "custom"
    status,         \* status[i]: "unborn", "ready" or "destroyed"
    navBarService,  \* navBarService[i]: the private field of instance i
    injected,       \* injected[i]: the service the host passed to the constructor
    links,          \* links[i]: the link list instance i renders
    trace,          \* trace[i]: the operations the host invoked on instance i
    out,            \* out[i]: the messages logged during instance i's operations
    svcCalls,       \* svcCalls[i]: the service calls made by instance i
    console,        \* every message logged so far, in order
    last            \* the latest host call: instance, operation, console before it

vars == <<revision, kind, status, navBarService, injected, links, trace, out,
          svcCalls, console, last>>

NoCall == [inst |-> 0, op |-> "none", before |-> <<>>]

\* ------------------------------------------------------------ effects
\* The world an operation runs in: the console, the messages this operation
\* logged itself, and the service calls it made.
World(con) == [con |-> con, own |-> <<>>, calls |-> <<>>]

\* console.log(m)
Log(w, m) == [w EXCEPT !.con = Append(@, m), !.own = Append(@, m)]

\* Entering a method of service s (bookkeeping of who was called).
Enter(w, s, op) == [w EXCEPT !.calls = Append(@, [svc |-> s, op |-> op])]

\* --------------------------------------------------------- the service
\* A service that remembers having been cleaned up and then stays silent.
StatefulService_displayLinks(s, w) ==
    IF \E k \in 1..Len(w.con) : w.con[k] = ServiceCleanupMsg
    THEN Enter(w, s, "displayLinks")
    ELSE Log(Enter(w, s, "displayLinks"), DefaultLinksMsg)

NavBarService_displayLinks(s, w) ==
    Log(Enter(w, s, "displayLinks"), DefaultLinksMsg)

\* A service whose cleanup runs once and is skipped when asked again.
OnceOnly_ngOnDestroy(s, w) ==
    IF \E k \in 1..Len(w.con) : w.con[k] = ServiceCleanupMsg
    THEN Enter(w, s, "ngOnDestroy")
    ELSE Log(Enter(w, s, "ngOnDestroy"), ServiceCleanupMsg)

NavBarService_ngOnDestroy(s, w) ==
    Log(Enter(w, s, "ngOnDestroy"), ServiceCleanupMsg)

\* ------------------------------------------------- the base component
\* Teardown that logs the component's message before delegating.
ComponentFirst_ngOnDestroy(i, w) ==
    IF revision = "DIP"
    THEN NavBarService_ngOnDestroy(navBarService[i], Log(w, ComponentCleanupMsg))
    ELSE Log(w, HellBhieMsg)

NavBarComponentComponent_ngOnDestroy(i, w) ==
    IF revision = "DIP"
    THEN Log(NavBarService_ngOnDestroy(navBarService[i], w), ComponentCleanupMsg)
    ELSE Log(w, HellBhieMsg)

\* displayLinks that delegates to the wrong service operation.
WrongOp_displayLinks(i, w) ==
    IF revision = "DIP"
    THEN NavBarService_ngOnDestroy(navBarService[i], w)
    ELSE Log(w, DefaultLinksMsg)

NavBarComponentComponent_displayLinks(i, w) ==
    IF revision = "DIP"
    THEN NavBarService_displayLinks(navBarService[i], w)
    ELSE Log(w, DefaultLinksMsg)

\* ---------------------------------------------- the derived component
\* An override that logs its own message before chaining to the parent.
ChildFirst_ngOnDestroy(i, w) ==
    IF revision = "DIP"
    THEN NavBarComponentComponent_ngOnDestroy(i, w)
    ELSE NavBarComponentComponent_ngOnDestroy(i, Log(w, CustomExtraCleanupMsg))

\* An override that delegates to the service itself and then chains as well.
DoubleTeardown_ngOnDestroy(i, w) ==
    IF revision = "DIP"
    THEN NavBarComponentComponent_ngOnDestroy(i,
             NavBarService_ngOnDestroy(navBarService[i], w))
    ELSE Log(NavBarComponentComponent_ngOnDestroy(i, w), CustomExtraCleanupMsg)

\* The override left commented out in the final code, switched on: it
\* delegates to the service and does not chain to the parent.
Uncommented_ngOnDestroy(i, w) ==
    IF revision = "DIP"
    THEN NavBarService_ngOnDestroy(navBarService[i], w)
    ELSE Log(NavBarComponentComponent_ngOnDestroy(i, w), CustomExtraCleanupMsg)

CustomNavBarComponent_ngOnDestroy(i, w) ==
    IF revision = "DIP"
    THEN NavBarComponentComponent_ngOnDestroy(i, w)
    ELSE Log(NavBarComponentComponent_ngOnDestroy(i, w), CustomExtraCleanupMsg)

\* The ISP override kept in every revision.
KeptOverride_displayLinks(i, w) == Log(w, CustomLinksMsg)

CustomNavBarComponent_displayLinks(i, w) ==
    IF revision = "ISP"
    THEN Log(w, CustomLinksMsg)
    ELSE NavBarComponentComponent_displayLinks(i, w)

\* The operations of the revision: displayLinks exists from ISP on.
HasDisplayLinks == revision \in {"ISP", "DIP"}
OverridesTeardown(k) == k = "custom" /\ revision \in {"LSP", "ISP"}

\* Method dispatch on the instance's class.
Call_displayLinks(i, w) ==
    IF kind[i] = "custom"
    THEN CustomNavBarComponent_displayLinks(i, w)
    ELSE NavBarComponentComponent_displayLinks(i, w)

Call_ngOnDestroy(i, w) ==
    IF kind[i] = "custom"
    THEN CustomNavBarComponent_ngOnDestroy(i, w)
    ELSE NavBarComponentComponent_ngOnDestroy(i, w)

\* ------------------------------------------------------- constructors
\* The field a constructor leaves in the instance, given the service passed.
NavBarComponentComponent_constructor(s) ==
    IF revision = "DIP" THEN s ELSE NoService

\* A derived constructor that hands its parent another service.
OtherService_constructor(s) ==
    NavBarComponentComponent_constructor((s % NumServices) + 1)

CustomNavBarComponent_constructor(s) ==
    NavBarComponentComponent_constructor(s)

\* ------------------------------------------------------------ actions
Init ==
    /\ revision \in Revisions
    /\ kind = [i \in Instances |-> "none"]
    /\ status = [i \in Instances |-> "unborn"]
    /\ navBarService = [i \in Instances |-> NoService]
    /\ injected = [i \in Instances |-> NoService]
    /\ links = [i \in Instances |-> <<>>]
    /\ trace = [i \in Instances |-> <<>>]
    /\ out = [i \in Instances |-> <<>>]
    /\ svcCalls = [i \in Instances |-> <<>>]
    /\ console = <<>>
    /\ last = NoCall

\* The host constructs the next component, of class k, injecting service s:
\* one already injected somewhere, or the next one, created on demand.
Construct(i, k, s) ==
    /\ status[i] = "unborn"
    /\ \A j \in Instances : j < i => status[j] # "unborn"
    /\ \A t \in 1..(s - 1) : \E j \in Instances : injected[j] = t
    /\ kind' = [kind EXCEPT ![i] = k]
    /\ status' = [status EXCEPT ![i] = "ready"]
    /\ injected' = [injected EXCEPT ![i] = IF revision = "DIP" THEN s ELSE NoService]
    /\ navBarService' = [navBarService EXCEPT ![i] =
            IF k = "custom" THEN CustomNavBarComponent_constructor(s)
                            ELSE NavBarComponentComponent_constructor(s)]
    /\ links' = [links EXCEPT ![i] = DeclaredLinks(k)]
    /\ UNCHANGED <<revision, trace, out, svcCalls, console, last>>

\* What a host call of an operation leaves behind.
Ran(i, op, w) ==
    /\ console' = w.con
    /\ out' = [out EXCEPT ![i] = @ \o w.own]
    /\ svcCalls' = [svcCalls EXCEPT ![i] = @ \o w.calls]
    /\ trace' = [trace EXCEPT ![i] = Append(@, op)]
    /\ last' = [inst |-> i, op |-> op, before |-> console]

\* A displayLinks that also rewrites the rendered list.
Rewriting_DisplayLinks(i) ==
    /\ status[i] = "ready"
    /\ HasDisplayLinks
    /\ Len(trace[i]) < MaxCalls
    /\ Ran(i, "displayLinks", Call_displayLinks(i, World(console)))
    /\ links' = [links EXCEPT ![i] = Tail(@)]
    /\ UNCHANGED <<revision, kind, status, navBarService, injected>>

\* The host calls displayLinks() on a live component.
DisplayLinks(i) ==
    /\ status[i] = "ready"
    /\ HasDisplayLinks
    /\ Len(trace[i]) < MaxCalls
    /\ Ran(i, "displayLinks", Call_displayLinks(i, World(console)))
    /\ UNCHANGED <<revision, kind, status, navBarService, injected, links>>

\* The host tears a live component down: ngOnDestroy(), once.
Destroy(i) ==
    /\ status[i] = "ready"
    /\ Ran(i, "ngOnDestroy", Call_ngOnDestroy(i, World(console)))
    /\ status' = [status EXCEPT ![i] = "destroyed"]
    /\ UNCHANGED <<revision, kind, navBarService, injected, links>>

Next ==
    \/ \E i \in Instances, k \in {"base", "custom"}, s \in Services : Construct(i, k, s)
    \/ \E i \in Instances : DisplayLinks(i)
    \/ \E i \in Instances : Destroy(i)

Spec == Init /\ [][Next]_vars

TypeOK ==
    /\ revision \in Revisions
    /\ kind \in [Instances -> {"none", "base", "custom"}]
    /\ status \in [Instances -> {"unborn", "ready", "destroyed"}]
    /\ navBarService \in [Instances -> Services \cup {NoService}]
    /\ injected \in [Instances -> Services \cup {NoService}]
    /\ \A i \in Instances : Len(trace[i]) <= MaxCalls + 1

\* ------------------------------------------------ auxiliary operators
\* The messages the latest host call added to the console.
LastEffects == SubSeq(console, Len(last.before) + 1, Len(console))

\* The latest host call only appended to the console.
LastAppended == console = last.before \o LastEffects

Count(seq, m) == Cardinality({k \in 1..Len(seq) : seq[k] = m})

RECURSIVE TotalServiceCalls(_)
TotalServiceCalls(n) ==
    IF n = 0 THEN 0 ELSE Len(svcCalls[n]) + TotalServiceCalls(n - 1)

Constructed == {i \in Instances : status[i] # "unborn"}

\* The latest host call was operation op, on an instance of class k.
LastWas(op, k) ==
    /\ last.op = op
    /\ last.inst \in Instances
    /\ kind[last.inst] = k

\* ---------------------------------------------------------------- C1
\* C1 (as stated): the first displayLinks() of a derived component that holds
\* the service logs exactly 'Displaying custom navbar links'.
C1_Original ==
    (/\ LastWas("displayLinks", "custom")
     /\ trace[last.inst] = <<"displayLinks">>
     /\ navBarService[last.inst] # NoService)
    => console = Append(last.before, CustomLinksMsg)

\* C1 (amended): the first displayLinks() of a derived component logs exactly
\* one message: in the final (DIP) revision, where it holds the service, the
\* default-links message and no custom-links message; the custom-links
\* message only in the ISP revision, where it overrides displayLinks and
\* holds no service.
C1_DerivedDisplayLinks ==
    (/\ LastWas("displayLinks", "custom")
     /\ trace[last.inst] = <<"displayLinks">>)
    => /\ navBarService[last.inst] # NoService
          => console = Append(last.before, DefaultLinksMsg)
       /\ navBarService[last.inst] = NoService
          => console = Append(last.before, CustomLinksMsg)
       /\ out[last.inst] = LastEffects

C1_Witness ==
    /\ LastWas("displayLinks", "custom")
    /\ trace[last.inst] = <<"displayLinks">>
    /\ navBarService[last.inst] # NoService
    /\ Count(console, CustomLinksMsg) = 0

\* ---------------------------------------------------------------- C2
\* C2: the first displayLinks() of a base component appends exactly one
\* message to the console, 'Displaying default navbar links', and nothing else.
C2_BaseDisplayLinks ==
    (/\ LastWas("displayLinks", "base")
     /\ trace[last.inst] = <<"displayLinks">>)
    => /\ console = Append(last.before, DefaultLinksMsg)
       /\ out[last.inst] = <<DefaultLinksMsg>>

C2_Witness ==
    /\ revision = "DIP"
    /\ LastWas("displayLinks", "base")
    /\ trace[last.inst] = <<"displayLinks">>
    /\ last.before # <<>>

\* ---------------------------------------------------------------- C3
\* C3 (as stated): one ngOnDestroy() logs exactly one teardown message, and an
\* overriding derived component that chains to its parent exactly one more.
C3_Original ==
    (last.op = "ngOnDestroy")
    => /\ LastAppended
       /\ Len(LastEffects) =
            1 + (IF OverridesTeardown(kind[last.inst]) THEN 1 ELSE 0)

\* C3 (amended): one ngOnDestroy() logs exactly one teardown message of each
\* unit it passes through: in the final (DIP) revision two, the service's one
\* and the component's own one, for base and derived alike; in the earlier
\* revisions one for the base, and exactly one more for the overriding derived
\* component that chains to its parent.
C3_TeardownEffects ==
    (last.op = "ngOnDestroy")
    => /\ LastAppended
       /\ Len(LastEffects) =
            (IF revision = "DIP" THEN 2 ELSE 1)
            + (IF OverridesTeardown(kind[last.inst]) THEN 1 ELSE 0)
       /\ Count(LastEffects, ServiceCleanupMsg) = (IF revision = "DIP" THEN 1 ELSE 0)
       /\ Count(LastEffects, ComponentCleanupMsg) = (IF revision = "DIP" THEN 1 ELSE 0)
       /\ Count(LastEffects, HellBhieMsg) = (IF revision = "DIP" THEN 0 ELSE 1)
       /\ Count(LastEffects, CustomExtraCleanupMsg) =
            (IF OverridesTeardown(kind[last.inst]) THEN 1 ELSE 0)

C3_Witness ==
    /\ revision = "DIP"
    /\ LastWas("ngOnDestroy", "custom")
    /\ Len(LastEffects) = 2
    /\ \E j \in Instances : kind[j] = "base" /\ status[j] = "destroyed"

\* ---------------------------------------------------------------- C4
\* C4: tearing down a derived component that overrides ngOnDestroy logs the
\* whole base teardown first and the derived extra-cleanup message last.
C4_ParentThenChild ==
    (last.op = "ngOnDestroy" /\ OverridesTeardown(kind[last.inst]))
    => console = last.before \o <<HellBhieMsg, CustomExtraCleanupMsg>>

C4_Witness ==
    /\ LastWas("ngOnDestroy", "custom")
    /\ OverridesTeardown("custom")
    /\ LastEffects[2] = CustomExtraCleanupMsg
    /\ last.before # <<>>

\* ---------------------------------------------------------------- C9
\* C9: in the final revision one ngOnDestroy() of the base component logs
\* exactly the service's message and then the component's own message.
C9_ServiceThenComponent ==
    (revision = "DIP" /\ LastWas("ngOnDestroy", "base"))
    => console = last.before \o <<ServiceCleanupMsg, ComponentCleanupMsg>>

C9_Witness ==
    /\ revision = "DIP"
    /\ LastWas("ngOnDestroy", "base")
    /\ LastEffects = <<ServiceCleanupMsg, ComponentCleanupMsg>>

\* ---------------------------------------------------------------- C5
\* C5: with the service invoked N times through the component instances, the
\* console holds N service messages, and what each host call adds is what the
\* same call adds on an empty console, through any constructed instance of
\* either class and any service: it depends neither on the caller nor on what
\* ran before.
C5_IndependentInvocations ==
    (revision = "DIP")
    => /\ Count(console, DefaultLinksMsg) + Count(console, ServiceCleanupMsg)
            = TotalServiceCalls(MaxInstances)
       /\ last.op = "displayLinks"
            => \A j \in Constructed :
                 console = last.before \o Call_displayLinks(j, World(<<>>)).con
       /\ last.op = "ngOnDestroy"
            => \A j \in Constructed :
                 console = last.before \o Call_ngOnDestroy(j, World(<<>>)).con

C5_Witness ==
    /\ revision = "DIP"
    /\ TotalServiceCalls(MaxInstances) >= 3
    /\ \E i, j \in Constructed :
         /\ kind[i] = "base" /\ kind[j] = "custom"
         /\ navBarService[i] = navBarService[j]
         /\ svcCalls[i] # <<>> /\ svcCalls[j] # <<>>
    /\ last.op = "displayLinks"
    /\ Count(last.before, ServiceCleanupMsg) > 0

\* ---------------------------------------------------------------- C6
\* C6: a displayLinks() call leaves every instance's link list as declared
\* for its class, and changes nothing but the console, to which it appends
\* one message.
C6_LinksUnchanged ==
    [][\A i \in Instances :
         (trace'[i] = Append(trace[i], "displayLinks"))
         => /\ links' = links
            /\ links'[i] = DeclaredLinks(kind[i])
            /\ kind' = kind /\ status' = status
            /\ navBarService' = navBarService
            /\ Len(console') = Len(console) + 1
            /\ SubSeq(console', 1, Len(console)) = console]_vars

C6_Witness ==
    /\ \E i, j \in Constructed :
         /\ kind[i] = "base" /\ kind[j] = "custom"
         /\ Len(trace[i]) = 2 /\ trace[i][2] = "displayLinks"
         /\ trace[j] # <<>> /\ trace[j][1] = "displayLinks"
         /\ links[i] = BaseLinks /\ links[j] = CustomLinks

\* ---------------------------------------------------------------- C7
\* C7: the service holds no state: on every console the program reaches, for
\* every service, displayLinks adds exactly the default-links message and
\* ngOnDestroy exactly the service-cleanup message, also after a teardown, and
\* two adjacent calls in either order differ only in the order of their two
\* messages; a displayLinks() the host made through a component added exactly
\* that message whatever ran before.
C7_ServiceStateless ==
    /\ \A s \in Services :
         LET w == World(console)
             d == NavBarService_displayLinks(s, w)
             n == NavBarService_ngOnDestroy(s, w)
             dn == NavBarService_ngOnDestroy(s, d)
             nd == NavBarService_displayLinks(s, n)
             dd == NavBarService_displayLinks(s, d)
             nn == NavBarService_ngOnDestroy(s, n)
         IN /\ d.con = Append(console, DefaultLinksMsg)
            /\ n.con = Append(console, ServiceCleanupMsg)
            /\ dn.con = console \o <<DefaultLinksMsg, ServiceCleanupMsg>>
            /\ nd.con = console \o <<ServiceCleanupMsg, DefaultLinksMsg>>
            /\ dd.con = console \o <<DefaultLinksMsg, DefaultLinksMsg>>
            /\ nn.con = console \o <<ServiceCleanupMsg, ServiceCleanupMsg>>
    /\ (revision = "DIP" /\ last.op = "displayLinks")
         => console = Append(last.before, DefaultLinksMsg)

C7_Witness ==
    /\ revision = "DIP"
    /\ last.op = "displayLinks"
    /\ Count(last.before, ServiceCleanupMsg) > 0
    /\ Count(last.before, DefaultLinksMsg) > 0
    /\ LastEffects = <<DefaultLinksMsg>>

\* ---------------------------------------------------------------- C8
\* C8: in the final revision every host call on a component, base or derived,
\* makes exactly one service call: of the operation of the same name, on the
\* service that was passed to the component's constructor.
C8_ThinDelegators ==
    (revision = "DIP")
    => \A i \in Constructed :
         /\ navBarService[i] = injected[i]
         /\ injected[i] \in Services
         /\ Len(svcCalls[i]) = Len(trace[i])
         /\ \A k \in 1..Len(trace[i]) :
              svcCalls[i][k] = [svc |-> injected[i], op |-> trace[i][k]]

C8_Witness ==
    /\ revision = "DIP"
    /\ \E i, j \in Constructed :
         /\ kind[i] = "base" /\ kind[j] = "custom"
         /\ injected[i] # injected[j]
         /\ trace[i] = <<"displayLinks", "ngOnDestroy">>
         /\ trace[j] = <<"displayLinks", "ngOnDestroy">>
         /\ Len(svcCalls[i]) = 2 /\ Len(svcCalls[j]) = 2

\* --------------------------------------------------------------- C10
\* C10: in the final revision a derived component given the same sequence of
\* calls as a base component logs the same sequence of messages; the two
\* differ in their link lists.
C10_Substitutable ==
    (revision = "DIP")
    => \A i, j \in Constructed :
         (kind[i] = "base" /\ kind[j] = "custom")
         => /\ trace[i] = trace[j] => out[i] = out[j]
            /\ links[i] # links[j]

C10_Witness ==
    /\ revision = "DIP"
    /\ \E i, j \in Constructed :
         /\ kind[i] = "base" /\ kind[j] = "custom"
         /\ trace[i] = trace[j]
         /\ Len(trace[i]) = MaxCalls + 1
         /\ out[i] = out[j]
         /\ Len(out[j]) = MaxCalls + 2

=============================================================================
